---------------------------- MODULE Spec2Model ----------------------------
(***************************************************************************)
(* NiceMail core: the background task runner (core/services.py), the spam  *)
(* classification pipeline (core/spam_manager.py) and the mail controller  *)
(* with its retrieval clients (core/controller.py, core/mail_client.py).   *)
(*                                                                         *)
(* Three specifications share the module:                                  *)
(*   Spec       the BackgroundTaskRunner driven by refresh_inbox_async     *)
(*   SpamSpec   SpamManager.filter_messages applied to drawn inputs        *)
(*   InboxSpec  MailController.load_initial_inbox / mark_as_read over a    *)
(*              heap of shared MailMessage objects                         *)
(***************************************************************************)
EXTENDS Integers, Sequences, FiniteSets, TLC

VARIABLES
    \* ---- BackgroundTaskRunner and its environment ----
    app,          \* QApplication.instance() is not None
    loop,         \* the Qt event loop (app.exec()): "none", "running", "stopped"
    max_workers,  \* ThreadPoolExecutor(max_workers=...)
    shut,         \* the executor's _shutdown flag
    workq,        \* the executor's work queue: futures submitted, not started
    fstate,       \* state of each call's Future
    fresult,      \* result / exception stored in each Future
    completedBy,  \* thread that moved the Future to a done state
    hasCb,        \* _done is registered on the Future (add_done_callback)
    mainpc,       \* 0, or the call whose run() is between submit and add_done_callback
    uiq,          \* closures posted with QTimer.singleShot(0, ...)
    calls,        \* invocations of on_done observed so far, per call
    \* ---- SpamManager.filter_messages ----
    sp_enabled,   \* SpamConfig.enabled
    sp_api_key,   \* SpamConfig.api_key: "none" (None), "empty" ("") or "key"
    sp_messages,  \* the batch handed to filter_messages
    sp_response,  \* what httpx.post met, when it was called
    sp_posts,     \* number of httpx.post calls made
    sp_result,    \* the sequence filter_messages returned
    sp_pc,        \* "ready" before the call, "returned" after it
    \* ---- MailController and its MailClients ----
    clients,      \* MailController._clients: account address, protocol, _use_sample_data
    heap,         \* the MailMessage objects created so far; a reference is an index
    sample_messages, \* MailClient._sample_messages per client: loaded, and the list
    server,       \* the IMAP mailbox of each account: uid, date, \Seen per message
    net,          \* how each account's server answers a fetch in this run
    service,      \* how the classification service answers the batch of each account
    views,        \* the InboxData of each load: state, folders, messages, unread_count
    \* ---- calls of the controller's API on one message ----
    api_pc,       \* "setup" before the message is obtained, "ready" after it
    target,       \* the MailMessage handed to mark_as_read / toggle_flag (a reference)
    api_log,      \* the calls made so far and what each did
    \* ---- MailClient.fetch_inbox on drawn inputs ----
    ft_client,    \* the account of the client: address, protocol, _use_sample_data
    ft_mailbox,   \* the mailbox its server holds
    ft_limit,     \* the limit passed to fetch_inbox
    ft_outcome,   \* what the IMAP session meets
    ft_result,    \* what fetch_inbox gave its caller
    \* ---- the folder merge of load_initial_inbox on drawn inputs ----
    fd_folders,   \* the folders collected from the clients
    fd_result,    \* the folders of the InboxData
    \* ---- MailClient._load_sample_messages of one client, run by threads ----
    ls_cache,     \* self._sample_messages: 0 (None), or the list the k-th decode built
    ls_pc,        \* where each thread is inside fetch_inbox
    ls_messages,  \* the local `messages` of each thread: the list it built
    ls_decodes,   \* number of times the fixture was opened and decoded
    ls_returned   \* what each finished fetch returned, in the order they returned

runnerVars == <<app, loop, max_workers, shut, workq, fstate, fresult,
                completedBy, hasCb, mainpc, uiq, calls>>

spamVars == <<sp_enabled, sp_api_key, sp_messages, sp_response, sp_posts, sp_result, sp_pc>>

inboxVars == <<clients, heap, sample_messages, server, net, service, views>>

apiVars == <<api_pc, target, api_log>>

fetchVars == <<ft_client, ft_mailbox, ft_limit, ft_outcome, ft_result>>

folderVars == <<fd_folders, fd_result>>

cacheVars == <<ls_cache, ls_pc, ls_messages, ls_decodes, ls_returned>>

vars == <<runnerVars, spamVars, inboxVars, apiVars, fetchVars, folderVars, cacheVars>>

\* what the steps of each component leave alone
notRunner == <<spamVars, inboxVars, apiVars, fetchVars, folderVars, cacheVars>>
notSpam == <<runnerVars, inboxVars, apiVars, fetchVars, folderVars, cacheVars>>
notInbox == <<runnerVars, sp_messages, sp_response, sp_posts, sp_result, sp_pc,
              apiVars, fetchVars, folderVars, cacheVars>>

-----------------------------------------------------------------------------
(* Bounds of the runner model *)

\* number of refresh_inbox_async calls in one behaviour
MaxTasks == 3
\* largest worker pool drawn for max_workers
MaxPool == 2
\* distinct InboxData values a load can return
MaxVal == 2

Tasks == 1..MaxTasks
Vals  == 1..MaxVal

NoResult  == [kind |-> "none", val |-> 0]
Cancelled == [kind |-> "cancelled", val |-> 0]
Returned(v) == [kind |-> "ok", val |-> v]
Raised == [kind |-> "exc", val |-> 0]

Running == {t \in Tasks : fstate[t] = "running"}

-----------------------------------------------------------------------------
(* BackgroundTaskRunner.run._done *)

\* fut.result() inside _done: the stored value, the stored exception (caught
\* and kept as the result), or CancelledError for a cancelled future
FutResultLate(t, fs, fr) ==
    LET fin == {u \in Tasks : fr[u].kind # "none"}
    IN  IF fin = {} THEN Cancelled
        ELSE fr[CHOOSE u \in fin : \A w \in fin : w <= u]

FutResult(t, fs, fr) ==
    IF fs[t] = "cancelled" THEN Cancelled ELSE fr[t]

\* invocations of on_done made so far, over all calls
RECURSIVE Invoked(_, _)
Invoked(cs, n) == IF n = 0 THEN 0 ELSE Len(cs[n]) + Invoked(cs, n - 1)

\* callback(result): the invocation, and its place (at) in the order in which
\* on_done was invoked over all calls
Invoke(cs, t, res, thr, how) ==
    [cs EXCEPT ![t] = Append(@, [arg |-> res, thread |-> thr, how |-> how,
                                 at |-> Invoked(cs, MaxTasks) + 1])]

\* _done(fut) run by thread thr: callback(result) directly when there is no
\* QApplication, QTimer.singleShot(0, lambda: callback(result)) otherwise,
\* which posts the closure to the event queue of the UI context.
\* Maps <<calls, uiq>> to their values after the handler.
DoneCbAlwaysDirect(t, thr, fs, fr, cs, uq) ==
    <<Invoke(cs, t, FutResult(t, fs, fr), thr, "direct"), uq>>

DoneCbTwice(t, thr, fs, fr, cs, uq) ==
    LET result == FutResult(t, fs, fr)
    IN  <<Invoke(cs, t, result, thr, "direct"),
          IF app THEN Append(uq, [task |-> t, arg |-> result]) ELSE uq>>

DoneCb(t, thr, fs, fr, cs, uq) ==
    LET result == FutResult(t, fs, fr)
    IN  IF ~app
        THEN <<Invoke(cs, t, result, thr, "direct"), uq>>
        ELSE <<cs, Append(uq, [task |-> t, arg |-> result])>>

-----------------------------------------------------------------------------
(* BackgroundTaskRunner.run, called by MailController.refresh_inbox_async *)

\* self._executor.submit(func) on a live executor: the future is queued
RunSubmit(t) ==
    /\ mainpc = 0
    /\ app => loop = "running"
    /\ fstate[t] = "none"
    /\ \A u \in Tasks : u < t => fstate[u] # "none"
    /\ ~shut
    /\ fstate' = [fstate EXCEPT ![t] = "pending"]
    /\ workq' = Append(workq, t)
    /\ mainpc' = t
    /\ UNCHANGED <<app, loop, max_workers, shut, fresult, completedBy, hasCb, uiq, calls>>
    /\ UNCHANGED notRunner

\* submit after shutdown raises RuntimeError out of run(): no future, no _done
RunRejected(t) ==
    /\ mainpc = 0
    /\ app => loop = "running"
    /\ fstate[t] = "none"
    /\ \A u \in Tasks : u < t => fstate[u] # "none"
    /\ shut
    /\ fstate' = [fstate EXCEPT ![t] = "rejected"]
    /\ UNCHANGED <<app, loop, max_workers, shut, workq, fresult, completedBy, hasCb,
                   mainpc, uiq, calls>>
    /\ UNCHANGED notRunner

\* future.add_done_callback(_done) on a future that is not done: registered
AddDoneCallback(t) ==
    /\ mainpc = t
    /\ fstate[t] \in {"pending", "running"}
    /\ hasCb' = [hasCb EXCEPT ![t] = TRUE]
    /\ mainpc' = 0
    /\ UNCHANGED <<app, loop, max_workers, shut, workq, fstate, fresult, completedBy,
                   uiq, calls>>
    /\ UNCHANGED notRunner

\* future.add_done_callback(_done) on a future that is already done: _done is
\* called at once, by the thread that called run()
AddDoneCallbackLate(t) ==
    /\ mainpc = t
    /\ fstate[t] \in {"finished", "cancelled"}
    /\ LET r == DoneCb(t, "main", fstate, fresult, calls, uiq)
       IN  calls' = r[1] /\ uiq' = r[2]
    /\ mainpc' = 0
    /\ UNCHANGED <<app, loop, max_workers, shut, workq, fstate, fresult, completedBy, hasCb>>
    /\ UNCHANGED notRunner

-----------------------------------------------------------------------------
(* ThreadPoolExecutor workers *)

\* a worker takes the oldest queued future and starts the work
StartGuard(t) ==
    /\ workq # <<>>
    /\ Head(workq) = t
    /\ Cardinality(Running) < max_workers

Start(t) ==
    /\ StartGuard(t)
    /\ fstate' = [fstate EXCEPT ![t] = "running"]
    /\ workq' = SelectSeq(workq, LAMBDA u : u # t)
    /\ UNCHANGED <<app, loop, max_workers, shut, fresult, completedBy, hasCb, mainpc,
                   uiq, calls>>
    /\ UNCHANGED notRunner

\* the work is done: set_result / set_exception, then the future's done
\* callbacks run in the worker thread
Finish(t, res) ==
    /\ fstate[t] = "running"
    /\ fstate' = [fstate EXCEPT ![t] = "finished"]
    /\ fresult' = [fresult EXCEPT ![t] = res]
    /\ completedBy' = [completedBy EXCEPT ![t] = "worker"]
    /\ IF hasCb[t]
       THEN LET r == DoneCb(t, "worker", fstate', fresult', calls, uiq)
            IN  calls' = r[1] /\ uiq' = r[2]
       ELSE UNCHANGED <<calls, uiq>>
    /\ UNCHANGED <<app, loop, max_workers, shut, workq, hasCb, mainpc>>
    /\ UNCHANGED notRunner

\* load_initial_inbox returns an InboxData
FinishReturn(t) == \E v \in Vals : Finish(t, Returned(v))

\* load_initial_inbox raises
FinishRaise(t) == Finish(t, Raised)

-----------------------------------------------------------------------------
(* BackgroundTaskRunner.shutdown and the event loop *)

\* cancel_futures=True: every queued future is cancelled, and cancel() runs
\* its done callbacks in the thread that called shutdown
RECURSIVE CancelAll(_, _, _, _)
CancelAll(qs, fs, cs, uq) ==
    IF qs = <<>> THEN <<cs, uq>>
    ELSE LET t == Head(qs)
             r == IF hasCb[t] THEN DoneCb(t, "main", fs, fresult, cs, uq) ELSE <<cs, uq>>
         IN  CancelAll(Tail(qs), fs, r[1], r[2])

\* the futures shutdown(wait=False, cancel_futures=True) cancels: all queued
ToCancelNone(q) == {}

ToCancel(q) == {q[i] : i \in 1..Len(q)}

Shutdown ==
    /\ mainpc = 0
    /\ ~shut
    /\ app => loop = "stopped"
    /\ shut' = TRUE
    /\ LET gone == ToCancel(workq)
           fs == [t \in Tasks |-> IF t \in gone THEN "cancelled" ELSE fstate[t]]
           r == CancelAll(SelectSeq(workq, LAMBDA u : u \in gone), fs, calls, uiq)
       IN  /\ fstate' = fs
           /\ completedBy' = [t \in Tasks |-> IF t \in gone THEN "main" ELSE completedBy[t]]
           /\ workq' = SelectSeq(workq, LAMBDA u : u \notin gone)
           /\ calls' = r[1]
           /\ uiq' = r[2]
    /\ UNCHANGED <<app, loop, max_workers, fresult, hasCb, mainpc>>
    /\ UNCHANGED notRunner

\* app.exec() returns (app.py: shutdown is called after it)
Quit ==
    /\ app
    /\ loop = "running"
    /\ mainpc = 0
    /\ loop' = "stopped"
    /\ UNCHANGED <<app, max_workers, shut, workq, fstate, fresult, completedBy, hasCb,
                   mainpc, uiq, calls>>
    /\ UNCHANGED notRunner

\* the event loop runs the oldest posted closure: callback(result) on the UI thread
UiDispatch ==
    /\ app
    /\ loop = "running"
    /\ mainpc = 0
    /\ uiq # <<>>
    /\ calls' = Invoke(calls, Head(uiq).task, Head(uiq).arg, "main", "posted")
    /\ uiq' = Tail(uiq)
    /\ UNCHANGED <<app, loop, max_workers, shut, workq, fstate, fresult, completedBy,
                   hasCb, mainpc>>
    /\ UNCHANGED notRunner

-----------------------------------------------------------------------------
(* MainWindow._on_inbox_refreshed, the on_done of every refresh *)

\* the view of the synchronous initial load, shown before any refresh
InitialView == [task |-> 0, val |-> 0]

\* _on_inbox_refreshed(result) for the refresh numbered task, on the view the
\* window shows: an exception leaves it, an InboxData replaces it
on_inbox_refreshedLatestWins(shown, task, result) ==
    IF result.kind # "ok" \/ task < shown.task THEN shown
    ELSE [task |-> task, val |-> result.val]

on_inbox_refreshed(shown, task, result) ==
    IF result.kind # "ok" THEN shown
    ELSE [task |-> task, val |-> result.val]

\* the invocations of on_done in the order they were made: the call and
\* the argument of each
Deliveries(cs) ==
    LET made == UNION {{[task |-> t, arg |-> cs[t][i].arg, at |-> cs[t][i].at] :
                            i \in 1..Len(cs[t])} : t \in Tasks}
    IN  [n \in 1..Cardinality(made) |-> CHOOSE d \in made : d.at = n]

\* what the window shows after the first n of the invocations ds
RECURSIVE ShownAfter(_, _)
ShownAfter(ds, n) ==
    IF n = 0 THEN InitialView
    ELSE on_inbox_refreshed(ShownAfter(ds, n - 1), ds[n].task, ds[n].arg)

-----------------------------------------------------------------------------
RunnerInit ==
    /\ app \in BOOLEAN
    /\ loop = IF app THEN "running" ELSE "none"
    /\ max_workers \in 1..MaxPool
    /\ shut = FALSE
    /\ workq = <<>>
    /\ fstate = [t \in Tasks |-> "none"]
    /\ fresult = [t \in Tasks |-> NoResult]
    /\ completedBy = [t \in Tasks |-> "none"]
    /\ hasCb = [t \in Tasks |-> FALSE]
    /\ mainpc = 0
    /\ uiq = <<>>
    /\ calls = [t \in Tasks |-> <<>>]

RunnerNext ==
    \/ \E t \in Tasks : RunSubmit(t)
    \/ \E t \in Tasks : RunRejected(t)
    \/ \E t \in Tasks : AddDoneCallback(t)
    \/ \E t \in Tasks : AddDoneCallbackLate(t)
    \/ \E t \in Tasks : Start(t)
    \/ \E t \in Tasks : FinishReturn(t)
    \/ \E t \in Tasks : FinishRaise(t)
    \/ Shutdown
    \/ Quit
    \/ UiDispatch

-----------------------------------------------------------------------------
(* SpamManager (core/spam_manager.py) *)

\* message ids of a batch
MaxIds == 3
\* longest batch handed to filter_messages
MaxBatch == 3
\* most entries in the "choices" of a classification response
MaxEntries == 2

Ids == 1..MaxIds

\* sequences over S of length at most n
RECURSIVE SeqsUpTo(_, _)
SeqsUpTo(S, n) ==
    IF n = 0 THEN {<<>>}
    ELSE LET shorter == SeqsUpTo(S, n - 1)
         IN  shorter \cup {Append(q, x) : q \in {r \in shorter : Len(r) = n - 1}, x \in S}

Distinct(q) == \A i, j \in 1..Len(q) : i # j => q[i] # q[j]

\* a batch: MailMessage records (only the id is read by the pipeline), ids distinct
Batches == {[i \in 1..Len(q) |-> [id |-> q[i]]] : q \in {r \in SeqsUpTo(Ids, MaxBatch) : Distinct(r)}}

\* one entry of data["choices"]: message_id 0 stands for a missing or empty
\* metadata.message_id; text is content[0].text:
\*   "notjson"  not a JSON document          (json.loads raises JSONDecodeError)
\*   "scalar"   JSON, but not an object      (parsed.get raises AttributeError)
\*   "spam"     {"is_spam": true, ...}
\*   "ham"      {"is_spam": false, ...}
\*   "nokey"    an object without "is_spam"
Texts == {"notjson", "scalar", "spam", "ham", "nokey"}
Entries == [message_id : Ids \cup {0}, text : Texts]

\* what the classification call can meet
\*   "transport", "timeout"  httpx.post raises
\*   "status"                raise_for_status raises
\*   "body"                  response.json() raises
\*   "nondict"               the body is JSON but not an object: data.get raises
\*   "ok"                    an object; choices is data.get("choices", [])
FailureKinds == {"transport", "timeout", "status", "body", "nondict"}
NoResponse == [kind |-> "none", choices |-> <<>>]
Failure(k) == [kind |-> k, choices |-> <<>>]
Answer(cs) == [kind |-> "ok", choices |-> cs]

\* the body of the loop over data["choices"] for one entry: continue
\* ("skip"), an exception ("raise"), or a SpamAssessment appended ("verdict")
Skip == [kind |-> "skip", message_id |-> 0, is_spam |-> FALSE]
Raise == [kind |-> "raise", message_id |-> 0, is_spam |-> FALSE]
Verdict(e) == [kind |-> "verdict", message_id |-> e.message_id, is_spam |-> (e.text = "spam")]

EntryStrict(e) ==
    IF e.message_id = 0 \/ e.text \in {"notjson", "scalar"} THEN Raise
    ELSE Verdict(e)

Entry(e) ==
    IF e.message_id = 0 THEN Skip
    ELSE IF e.text = "notjson" THEN Skip
    ELSE IF e.text = "scalar" THEN Raise
    ELSE Verdict(e)

\* the loop of _assess_messages over the entries: raised, and the assessments
RECURSIVE Assess(_)
Assess(cs) ==
    IF cs = <<>> THEN [raised |-> FALSE, assessments |-> <<>>]
    ELSE LET first == Entry(Head(cs))
             rest == Assess(Tail(cs))
         IN  IF first.kind = "raise" \/ rest.raised
             THEN [raised |-> TRUE, assessments |-> <<>>]
             ELSE IF first.kind = "skip" THEN rest
             ELSE [raised |-> FALSE, assessments |-> <<first>> \o rest.assessments]

\* _assess_messages(messages): [] without a call for an empty batch
assess_messages(messages, resp) ==
    IF messages = <<>> THEN [raised |-> FALSE, assessments |-> <<>>]
    ELSE IF resp.kind \in FailureKinds THEN [raised |-> TRUE, assessments |-> <<>>]
    ELSE Assess(resp.choices)

\* blocklist = {a.message_id for a in assessments if a.is_spam}
BlocklistAll(assessments) ==
    {assessments[i].message_id : i \in 1..Len(assessments)}

Blocklist(assessments) ==
    {assessments[i].message_id : i \in {j \in 1..Len(assessments) : assessments[j].is_spam}}

\* if not self._config.enabled or not self._config.api_key: return messages
PassThroughEnabledOnly(enabled, api_key) == ~enabled

PassThrough(enabled, api_key) == ~enabled \/ api_key \in {"none", "empty"}

\* except Exception: return messages
OnFailureNothing(messages) == <<>>

OnFailure(messages) == messages

\* filter_messages(messages)
filter_messages(enabled, api_key, messages, resp) ==
    IF PassThrough(enabled, api_key) THEN messages
    ELSE LET a == assess_messages(messages, resp)
         IN  IF a.raised THEN OnFailure(messages)
             ELSE SelectSeq(messages, LAMBDA m : m.id \notin Blocklist(a.assessments))

\* whether filter_messages reaches httpx.post
Posts_made(enabled, api_key, messages) ==
    IF PassThrough(enabled, api_key) \/ messages = <<>> THEN 0 ELSE 1

\* one call filter_messages(sp_messages), the service behaving as resp
Filter(resp) ==
    /\ sp_pc = "ready"
    /\ sp_posts' = Posts_made(sp_enabled, sp_api_key, sp_messages)
    /\ sp_response' = resp
    /\ sp_result' = filter_messages(sp_enabled, sp_api_key, sp_messages, resp)
    /\ sp_pc' = "returned"
    /\ UNCHANGED <<sp_enabled, sp_api_key, sp_messages>>
    /\ UNCHANGED notSpam

\* the call returns before httpx.post: pass-through, or an empty batch
FilterNoCall ==
    /\ sp_pc = "ready"
    /\ Posts_made(sp_enabled, sp_api_key, sp_messages) = 0
    /\ Filter(NoResponse)

\* httpx.post, raise_for_status or response.json() fails
FilterCallFails ==
    /\ sp_pc = "ready"
    /\ Posts_made(sp_enabled, sp_api_key, sp_messages) = 1
    /\ \E k \in FailureKinds : Filter(Failure(k))

\* the service answers with a JSON object
AllChoices == SeqsUpTo(Entries, MaxEntries)

FilterCallAnswers ==
    /\ sp_pc = "ready"
    /\ Posts_made(sp_enabled, sp_api_key, sp_messages) = 1
    /\ \E cs \in AllChoices : Filter(Answer(cs))

SpamInit ==
    /\ sp_enabled \in BOOLEAN
    /\ sp_api_key \in {"none", "empty", "key"}
    /\ sp_messages \in Batches
    /\ sp_response = NoResponse
    /\ sp_posts = 0
    /\ sp_result = <<>>
    /\ sp_pc = "ready"

SpamIdle ==
    /\ sp_enabled = FALSE
    /\ sp_api_key = "none"
    /\ sp_messages = <<>>
    /\ sp_response = NoResponse
    /\ sp_posts = 0
    /\ sp_result = <<>>
    /\ sp_pc = "idle"

SpamNext ==
    \/ FilterNoCall
    \/ FilterCallFails
    \/ FilterCallAnswers

RunnerIdle ==
    /\ app = FALSE
    /\ loop = "none"
    /\ max_workers = 1
    /\ shut = FALSE
    /\ workq = <<>>
    /\ fstate = [t \in Tasks |-> "none"]
    /\ fresult = [t \in Tasks |-> NoResult]
    /\ completedBy = [t \in Tasks |-> "none"]
    /\ hasCb = [t \in Tasks |-> FALSE]
    /\ mainpc = -1
    /\ uiq = <<>>
    /\ calls = [t \in Tasks |-> <<>>]

-----------------------------------------------------------------------------
(* MailClient (core/mail_client.py) and MailController (core/controller.py) *)

\* most accounts in the configuration
MaxClients == 2
\* messages in the IMAP mailbox of an account
MaxMail == 2
\* calls of load_initial_inbox in one behaviour (the initial load and refreshes)
MaxLoads == 2
\* load_initial_inbox: client.fetch_inbox(limit=50)
InboxLimit == 50

\* the rows of a view the user selects
MaxRow == 1

Loads == 1..MaxLoads
Protocols == {"demo", "imap", "pop3"}

\* resources/sample_messages.json: the bundled fixture, not in date order
SampleEntries ==
    << [id |-> 1, date_received |-> 1, is_unread |-> TRUE],
       [id |-> 2, date_received |-> 2, is_unread |-> TRUE] >>

\* id=f"sample:{entry['id']}" and id=f"{self.account.address}:{msg_id}"
\* as numbers: the part before the colon times IdBase, plus the part after it
IdBase == 1000
SampleId(entry_id) == IdBase * 999 + entry_id
ImapId(address, uid) == IdBase * address + uid

\* fetch_inbox takes the sample branch
ServesSample(c) == c.use_sample \/ c.protocol = "demo"

\* [:limit] and [-limit:] as Python slices them
FirstN(q, n) == SubSeq(q, 1, IF n < Len(q) THEN n ELSE Len(q))
LastN(q, n) == IF n = 0 \/ n >= Len(q) THEN q ELSE SubSeq(q, Len(q) - n + 1, Len(q))
Reversed(q) == [i \in 1..Len(q) |-> q[Len(q) + 1 - i]]

\* MailClient.list_primary_folders
list_primary_folders ==
    << [name |-> "INBOX", display_name |-> "Inbox", is_primary |-> TRUE, sort_index |-> 0],
       [name |-> "STARRED", display_name |-> "Favorites", is_primary |-> FALSE, sort_index |-> 1],
       [name |-> "SENT", display_name |-> "Sent", is_primary |-> FALSE, sort_index |-> 2],
       [name |-> "ARCHIVE", display_name |-> "Archive", is_primary |-> FALSE, sort_index |-> 3],
       [name |-> "SPAM", display_name |-> "Spam", is_primary |-> FALSE, sort_index |-> 4] >>

\* _load_sample_messages, cache empty: one MailMessage per fixture entry
SampleObjects(address) ==
    [i \in 1..Len(SampleEntries) |->
        [id |-> SampleId(SampleEntries[i].id), account_id |-> address,
         date_received |-> SampleEntries[i].date_received,
         is_unread |-> SampleEntries[i].is_unread, is_flagged |-> FALSE]]

\* email_message.get("Date") of the message with this uid: the header, or
\* None when the message has none or its text is no date (undated: that uid)
DateHeader(uid, undated) == IF uid = undated THEN "nodate" ELSE "date"

\* email.utils.parsedate_to_datetime(value): a datetime for a date, and
\* ValueError for None and for text that is no date; it never returns None
parsedate_to_datetime(value) == IF value = "date" THEN "datetime" ELSE "raises"

\* datetime.now(timezone.utc): a time no message of a mailbox carries
Now == 0

\* date_tuple.astimezone(timezone.utc) if date_tuple else datetime.now(timezone.utc)
DateReceived(date_tuple, date) == IF date_tuple = "datetime" THEN date ELSE Now

\* _fetch_imap past the search: ids = data[0].split()[-limit:], newest first,
\* one MailMessage per id whose fetch answers OK (got), flags from the server
ImapObjects(address, mailbox, limit, got, undated) ==
    LET ids == Reversed(LastN(mailbox, limit))
        ok == SelectSeq(ids, LAMBDA m : m.uid \in got)
    IN  [i \in 1..Len(ok) |->
            [id |-> ImapId(address, ok[i].uid), account_id |-> address,
             date_received |->
                 DateReceived(parsedate_to_datetime(DateHeader(ok[i].uid, undated)),
                              ok[i].date),
             is_unread |-> ~ok[i].seen, is_flagged |-> ok[i].flagged]]

\* str.lower() on the protocol kinds drawn
Lower(p) == IF p = "IMAP" THEN "imap" ELSE IF p = "DEMO" THEN "demo" ELSE p

\* self.account.protocol.lower() == "imap"
IsImap(c) == Lower(c.protocol) = "imap"

\* where an IMAP session can raise: IMAP4_SSL(...), login, select, search,
\* and the logout of the `with` block on the way out
RaisingStages == {"connect", "login", "select", "search", "logout"}

\* what an IMAP session meets: a stage that raises, or a search answered
\* with a status other than OK ("search_no"), or neither ("none"); the uids
\* whose fetch is answered with a status other than OK (refused); a uid
\* whose fetch or decoding raises (broken, 0 for none); a uid whose message
\* has no Date header that is a date (undated, 0 for none)
ImapOutcomes ==
    [fails : RaisingStages \cup {"search_no", "none"},
     refused : SUBSET (1..MaxMail),
     broken : 0..MaxMail,
     undated : 0..MaxMail]

\* the outcome of a try block: an exception, or the value it returns
Threw == [raised |-> TRUE, messages |-> <<>>]
Gave(messages) == [raised |-> FALSE, messages |-> messages]

\* the try block of _fetch_imap
ImapSession(address, mailbox, limit, o) ==
    LET ids == Reversed(LastN(mailbox, limit))
    IN  IF o.fails \in {"connect", "login", "select", "search"} THEN Threw
        ELSE IF o.fails = "search_no" THEN Gave(<<>>)
        ELSE IF \E k \in 1..Len(ids) : ids[k].uid = o.broken THEN Threw
        ELSE IF \E k \in 1..Len(ids) :
                   /\ ids[k].uid \notin o.refused
                   /\ parsedate_to_datetime(DateHeader(ids[k].uid, o.undated)) = "raises"
             THEN Threw
        ELSE IF o.fails = "logout" THEN Threw
        ELSE Gave(ImapObjects(address, mailbox, limit,
                              {u \in 1..Len(mailbox) : u \notin o.refused}, o.undated))

\* except Exception: return []
ExceptNone(r) == r

Except(r) == IF r.raised THEN Gave(<<>>) ELSE r

\* MailClient._fetch_imap
fetch_imap(address, mailbox, limit, o) == Except(ImapSession(address, mailbox, limit, o))

\* MailClient.fetch_inbox of a client whose sample cache is empty
fetch_inbox(c, mailbox, limit, o) ==
    IF ServesSample(c) THEN Gave(FirstN(SampleObjects(c.address), limit))
    ELSE IF IsImap(c) THEN fetch_imap(c.address, mailbox, limit, o)
    ELSE Gave(<<>>)

\* references of n objects appended to a heap of size k
NewRefsReused(k, n) == [i \in 1..n |-> i]

NewRefs(k, n) == [i \in 1..n |-> k + i]

\* the classification service as load_initial_inbox meets it: the call
\* fails, every message is judged legitimate, or the first of a batch is spam
SpamOutcomes == {"fail", "none", "first"}

SpamResponse(batch, o) ==
    IF o = "fail" THEN Failure("status")
    ELSE IF o = "none" \/ batch = <<>> THEN Answer(<<>>)
    ELSE Answer(<<[message_id |-> batch[1].id, text |-> "spam"]>>)

\* self._spam_manager.filter_messages(inbox_messages) on references
FilterRefs(h, refs, o) ==
    LET batch == [i \in 1..Len(refs) |-> [id |-> h[refs[i]].id, ref |-> refs[i]]]
        kept == filter_messages(sp_enabled, sp_api_key, batch, SpamResponse(batch, o))
    IN  [i \in 1..Len(kept) |-> kept[i].ref]

\* what one client's fetch can meet: the connection, login or search fails
\* (ok = FALSE); or the per-message fetches answer OK, all of them or all but
\* the one of the newest message (got: the uids fetched)
FetchOutcomes == [ok : BOOLEAN, got : {1..MaxMail, 1..(MaxMail - 1)}]

\* the same as an outcome of the IMAP session
SessionOf(n) ==
    [fails |-> IF n.ok THEN "none" ELSE "connect",
     refused |-> (1..MaxMail) \ n.got,
     broken |-> 0,
     undated |-> 0]

\* _load_sample_messages with the cache filled: `if self._sample_messages is
\* None` is false and the cached objects are returned as they are
CacheHitReset(h, list, address) ==
    [r \in 1..Len(h) |->
        IF \E k \in 1..Len(list) : list[k] = r
        THEN SampleObjects(address)[CHOOSE k \in 1..Len(list) : list[k] = r]
        ELSE h[r]]

CacheHit(h, list, address) == h

\* SpamManager is called once per account, with that account's batch: the
\* answer the batch of client i meets
ServiceForFirst(i) == service[1]

ServiceFor(i) == service[i]

\* client.fetch_inbox(limit) then filter_messages, for client number i, from
\* heap h and caches sm; gives the heap, the caches and the surviving references
FetchAndFilter(i, h, sm) ==
    LET c == clients[i]
    IN  IF ServesSample(c)
        THEN LET fresh == ~sm[i].loaded
                 h2 == IF fresh THEN h \o SampleObjects(c.address)
                       ELSE CacheHit(h, sm[i].list, c.address)
                 sm2 == IF fresh
                        THEN [sm EXCEPT ![i] = [loaded |-> TRUE,
                                                list |-> NewRefs(Len(h), Len(SampleEntries))]]
                        ELSE sm
             IN  [heap |-> h2, sample |-> sm2,
                  kept |-> FilterRefs(h2, FirstN(sm2[i].list, InboxLimit), ServiceFor(i))]
        ELSE IF IsImap(c)
        THEN LET made == fetch_imap(c.address, server[i], InboxLimit,
                                    SessionOf(net[i])).messages
                 h2 == h \o made
             IN  [heap |-> h2, sample |-> sm,
                  kept |-> FilterRefs(h2, NewRefs(Len(h), Len(made)), ServiceFor(i))]
        ELSE [heap |-> h, sample |-> sm, kept |-> FilterRefs(h, <<>>, ServiceFor(i))]

\* the loop of load_initial_inbox over self._clients, from client i on;
\* messages.extend(filtered) adds the survivors to those collected before
RECURSIVE CollectAssign(_, _, _, _)
CollectAssign(i, h, sm, msgs) ==
    IF i > Len(clients) THEN [heap |-> h, sample |-> sm, messages |-> msgs]
    ELSE LET r == FetchAndFilter(i, h, sm)
         IN  CollectAssign(i + 1, r.heap, r.sample, r.kept)

RECURSIVE Collect(_, _, _, _)
Collect(i, h, sm, msgs) ==
    IF i > Len(clients) THEN [heap |-> h, sample |-> sm, messages |-> msgs]
    ELSE LET r == FetchAndFilter(i, h, sm)
         IN  Collect(i + 1, r.heap, r.sample, msgs \o r.kept)

\* unread_count = sum(message.is_unread for message in messages)
CountUnreadAll(h, msgs) == Len(msgs)

CountUnread(h, msgs) == Cardinality({i \in 1..Len(msgs) : h[msgs[i]].is_unread})

\* messages.sort(key=lambda msg: msg.date_received, reverse=True): stable,
\* so a message goes after those received later and after the earlier ones
\* of the list received at the same time
RECURSIVE SortAscending(_, _)
SortAscending(h, msgs) ==
    IF msgs = <<>> THEN <<>>
    ELSE LET rest == SortAscending(h, SubSeq(msgs, 1, Len(msgs) - 1))
             m == msgs[Len(msgs)]
             before == SelectSeq(rest, LAMBDA x : h[x].date_received <= h[m].date_received)
             after == SelectSeq(rest, LAMBDA x : h[x].date_received > h[m].date_received)
         IN  before \o <<m>> \o after

SortNewestFirst(h, msgs) ==
    LET n == Len(msgs)
        before(k) == {j \in 1..n :
                        \/ h[msgs[j]].date_received > h[msgs[k]].date_received
                        \/ (h[msgs[j]].date_received = h[msgs[k]].date_received /\ j < k)}
    IN  [r \in 1..n |-> msgs[CHOOSE k \in 1..n : Cardinality(before(k)) = r - 1]]

\* the folder loop: one entry per (name, display_name), a later copy replaces
\* an earlier one only when it is primary; dict order is first insertion
\* `or folder.is_primary`: a later copy replaces the entry kept for its key
ReplacesNever(f) == FALSE

Replaces(f) == f.is_primary

UniqueFoldersKeepAll(folders, unique) == unique \o folders

RECURSIVE UniqueFolders(_, _)
UniqueFolders(folders, unique) ==
    IF folders = <<>> THEN unique
    ELSE LET f == Head(folders)
             at == {i \in 1..Len(unique) :
                      unique[i].name = f.name /\ unique[i].display_name = f.display_name}
         IN  IF at = {} THEN UniqueFolders(Tail(folders), Append(unique, f))
             ELSE IF Replaces(f)
                  THEN UniqueFolders(Tail(folders),
                                     [i \in 1..Len(unique) |-> IF i \in at THEN f ELSE unique[i]])
                  ELSE UniqueFolders(Tail(folders), unique)

\* sorted(unique.values(), key=lambda f: f.sort_index): stable
RECURSIVE SortFolders(_)
SortFolders(fs) ==
    IF fs = <<>> THEN <<>>
    ELSE LET rest == SortFolders(SubSeq(fs, 1, Len(fs) - 1))
             f == fs[Len(fs)]
         IN  SelectSeq(rest, LAMBDA x : x.sort_index <= f.sort_index) \o <<f>>
                 \o SelectSeq(rest, LAMBDA x : x.sort_index > f.sort_index)

RECURSIVE AllFolders(_)
AllFolders(n) == IF n = 0 THEN <<>> ELSE AllFolders(n - 1) \o list_primary_folders

NoView == [state |-> "none", folders |-> <<>>, messages |-> <<>>, unread_count |-> 0]

\* load_initial_inbox: the InboxData built from the collected messages
InboxData(h, msgs, state) ==
    [state |-> state,
     folders |-> SortFolders(UniqueFolders(AllFolders(Len(clients)), <<>>)),
     messages |-> SortNewestFirst(h, msgs),
     unread_count |-> CountUnread(h, msgs)]

\* the UI thread is free when every view asked for synchronously was returned;
\* loads are started in order
Started(l) == views[l].state # "none"
NextLoad(l) == ~Started(l) /\ \A k \in Loads : k < l => Started(k)

\* load_initial_inbox run to its return, the view in state st
Load(l, st) ==
    /\ LET r == Collect(1, heap, sample_messages, <<>>)
       IN  /\ heap' = r.heap
           /\ sample_messages' = r.sample
           /\ views' = [views EXCEPT ![l] = InboxData(r.heap, r.messages, st)]
    /\ UNCHANGED <<clients, server, net, service, sp_enabled, sp_api_key>>
    /\ UNCHANGED notInbox

\* MainWindow._load_inbox: the synchronous load on the UI thread
LoadSync(l) ==
    /\ NextLoad(l)
    /\ Load(l, "handed")

\* refresh_inbox_async: the task runs load_initial_inbox on a worker thread
RefreshRun(l) ==
    /\ NextLoad(l)
    /\ Load(l, "pending")

\* the completion callback receives the InboxData on the UI thread
RefreshDeliver(l) ==
    /\ views[l].state = "pending"
    /\ views' = [views EXCEPT ![l].state = "handed"]
    /\ UNCHANGED <<clients, heap, sample_messages, server, net, service, sp_enabled, sp_api_key>>
    /\ UNCHANGED notInbox

\* the synthetic account of ensure_sample_client, MailClient(.., use_sample_data=True)
SampleClient == [address |-> 1, protocol |-> "demo", use_sample |-> TRUE]

\* MailController.ensure_sample_client on the client list cs
ensure_sample_clientAlways(cs) == Append(cs, SampleClient)

ensure_sample_client(cs) == IF cs = <<>> THEN Append(cs, SampleClient) ELSE cs

\* per-client state of the clients ensure_sample_client appended: no cache,
\* no IMAP mailbox, nothing for the network to refuse
Grown(q, n, x) == q \o [k \in 1..(n - Len(q)) |-> x]
NoCache == [loaded |-> FALSE, list |-> <<>>]
Reachable == [ok |-> TRUE, got |-> 1..MaxMail]

\* MainWindow.__init__: ensure_sample_client() when no account is configured
EnsureSampleClient ==
    /\ clients = <<>>
    /\ \A l \in Loads : ~Started(l)
    /\ clients' = ensure_sample_client(clients)
    /\ sample_messages' = Grown(sample_messages, Len(clients'), NoCache)
    /\ server' = Grown(server, Len(clients'), <<>>)
    /\ net' = Grown(net, Len(clients'), Reachable)
    /\ \E o \in SpamOutcomes :
          /\ sp_enabled \/ o = "none"
          /\ service' = Grown(service, Len(clients'), o)
    /\ UNCHANGED <<heap, views, sp_enabled, sp_api_key>>
    /\ UNCHANGED notInbox

\* MailClient.owns_message
owns_message(c, m) == m.account_id = c.address

\* the first client that owns the message, 0 when none does
Owner(m) ==
    LET owning == {i \in 1..Len(clients) : owns_message(clients[i], m)}
    IN  IF owning = {} THEN 0 ELSE CHOOSE i \in owning : \A j \in owning : i <= j

\* _imap_flag that reached the server: client.store(msg_id, "+FLAGS", "(\\Seen)")
StoreSeen(mailbox, uid) ==
    [k \in 1..Len(mailbox) |->
        IF mailbox[k].uid = uid THEN [mailbox[k] EXCEPT !.seen = TRUE] ELSE mailbox[k]]

\* client.store(msg_id, "+FLAGS" / "-FLAGS", "(\\Flagged)")
StoreFlagged(mailbox, uid, on) ==
    [k \in 1..Len(mailbox) |->
        IF mailbox[k].uid = uid THEN [mailbox[k] EXCEPT !.flagged = on] ELSE mailbox[k]]

\* msg_id = message.id.split(":")[-1]: the part of the id after the last colon
IdSuffix(id) == id % IdBase

\* the operations of the controller on a message
Ops == {"read", "flag"}

\* MailClient.mark_as_read / toggle_flag: the assignment to the message
LocalChange(op, m) ==
    IF op = "read" THEN [m EXCEPT !.is_unread = FALSE]
    ELSE [m EXCEPT !.is_flagged = ~m.is_flagged]

\* the STORE command _imap_flag sends for message m (as the client left it)
CommandOfOld(op, m) ==
    IF op = "read" THEN "+Seen" ELSE IF m.is_flagged THEN "-Flagged" ELSE "+Flagged"

CommandOf(op, m) ==
    IF op = "read" THEN "+Seen" ELSE IF m.is_flagged THEN "+Flagged" ELSE "-Flagged"

\* if not self._use_sample_data: self._imap_flag(...)
AttemptsPush(c) == ~c.use_sample

\* the try block of _imap_flag: the session went through (pushed) and the
\* server applied the command, or something in it raised
FlagSession(pushed) == IF pushed THEN "stored" ELSE "raised"

\* except Exception: pass
Swallow(r) == IF r = "raised" THEN "swallowed" ELSE r

\* _imap_flag as its caller sees it end
imap_flag_outcome(pushed) == Swallow(FlagSession(pushed))

\* _imap_flag: the mailbox on the server afterwards
imap_flag(mailbox, m, cmd, pushed) ==
    IF imap_flag_outcome(pushed) # "stored" THEN mailbox
    ELSE IF cmd = "+Seen" THEN StoreSeen(mailbox, IdSuffix(m.id))
    ELSE StoreFlagged(mailbox, IdSuffix(m.id), cmd = "+Flagged")

\* client i's mark_as_read / toggle_flag on the message at ref: the heap, the
\* servers, and what the client did
ClientApply(op, i, h, srv, ref, pushed) ==
    LET m == LocalChange(op, h[ref])
        attempted == AttemptsPush(clients[i])
        cmd == IF attempted THEN CommandOf(op, m) ELSE "none"
    IN  [heap |-> [h EXCEPT ![ref] = m],
         server |-> IF attempted
                    THEN [srv EXCEPT ![i] = imap_flag(@, m, cmd, pushed)]
                    ELSE srv,
         act |-> [client |-> i, attempted |-> attempted, command |-> cmd,
                  outcome |-> IF attempted THEN imap_flag_outcome(pushed) ELSE "none",
                  stored |-> attempted /\ imap_flag_outcome(pushed) = "stored"]]

\* MailController.mark_as_read / toggle_flag: the loop over self._clients
\* from client i on, with its break
RECURSIVE RouteAll(_, _, _, _, _, _, _)
RouteAll(op, i, h, srv, ref, pushed, acts) ==
    IF i > Len(clients) THEN [heap |-> h, server |-> srv, acts |-> acts]
    ELSE IF owns_message(clients[i], h[ref])
         THEN LET r == ClientApply(op, i, h, srv, ref, pushed)
              IN  RouteAll(op, i + 1, r.heap, r.server, ref, pushed, Append(acts, r.act))
         ELSE RouteAll(op, i + 1, h, srv, ref, pushed, acts)

RECURSIVE Route(_, _, _, _, _, _, _)
Route(op, i, h, srv, ref, pushed, acts) ==
    IF i > Len(clients) THEN [heap |-> h, server |-> srv, acts |-> acts]
    ELSE IF owns_message(clients[i], h[ref])
         THEN LET r == ClientApply(op, i, h, srv, ref, pushed)
              IN  [heap |-> r.heap, server |-> r.server, acts |-> Append(acts, r.act)]
         ELSE Route(op, i + 1, h, srv, ref, pushed, acts)

\* _on_list_selection_changed: MailController.mark_as_read(message) for
\* message i of a view the UI holds; pushed: the remote flag update succeeded
MarkAsRead(l, i, pushed) ==
    /\ views[l].state = "handed"
    /\ i \in 1..Len(views[l].messages)
    /\ LET ref == views[l].messages[i]
           o == Owner(heap[ref])
           r == Route("read", 1, heap, server, ref, pushed, <<>>)
       IN  /\ o # 0
           /\ heap[ref].is_unread \/ (pushed /\ AttemptsPush(clients[o]))
           /\ pushed => AttemptsPush(clients[o])
           /\ heap' = r.heap
           /\ server' = r.server
    /\ UNCHANGED <<clients, sample_messages, views, net, service, sp_enabled, sp_api_key>>
    /\ UNCHANGED notInbox

\* the configurations: accounts in order, addresses distinct
RECURSIVE ClientLists(_)
ClientLists(n) ==
    IF n = 0 THEN {<<>>}
    ELSE LET shorter == ClientLists(n - 1)
         IN  shorter \cup
             {Append(q, [address |-> n, protocol |-> p, use_sample |-> FALSE]) :
                 q \in {r \in shorter : Len(r) = n - 1}, p \in Protocols}

\* the mailbox of an IMAP account: uids in arrival order, all unseen
Mailbox ==
    [u \in 1..MaxMail |-> [uid |-> u, date |-> u, seen |-> FALSE, flagged |-> FALSE]]

InboxInit ==
    /\ clients \in ClientLists(MaxClients)
    /\ heap = <<>>
    /\ sample_messages = [i \in 1..Len(clients) |-> [loaded |-> FALSE, list |-> <<>>]]
    /\ server = [i \in 1..Len(clients) |->
                    IF clients[i].protocol = "imap" THEN Mailbox ELSE <<>>]
    /\ net \in [1..Len(clients) -> FetchOutcomes]
    /\ \A i \in 1..Len(clients) :
          /\ clients[i].protocol # "imap" => net[i].ok
          /\ (clients[i].protocol # "imap" \/ ~net[i].ok) => net[i].got = 1..MaxMail
    /\ service \in {[i \in 1..Len(clients) |-> o] : o \in SpamOutcomes}
    /\ views = [l \in Loads |-> NoView]

InboxIdle ==
    /\ clients = <<>>
    /\ heap = <<>>
    /\ sample_messages = <<>>
    /\ server = <<>>
    /\ net = <<>>
    /\ service = <<>>
    /\ views = [l \in Loads |-> NoView]

InboxNext ==
    \/ EnsureSampleClient
    \/ \E l \in Loads : LoadSync(l)
    \/ \E l \in Loads : RefreshRun(l)
    \/ \E l \in Loads : RefreshDeliver(l)
    \/ \E l \in Loads, i \in 1..MaxRow : MarkAsRead(l, i, FALSE)
    \/ \E l \in Loads, i \in 1..MaxRow : MarkAsRead(l, i, TRUE)

-----------------------------------------------------------------------------
(* The controller's API called on one message *)

\* calls of ensure_sample_client, mark_as_read and toggle_flag in one behaviour
MaxCalls == 2

\* a MailMessage that no client of the controller created
ForeignMessage ==
    [id |-> 0, account_id |-> 0, date_received |-> 0, is_unread |-> TRUE, is_flagged |-> FALSE]

\* configurations in which a later account may repeat the address of the first
RECURSIVE ApiClientLists(_)
ApiClientLists(n) ==
    IF n = 0 THEN {<<>>}
    ELSE LET shorter == ApiClientLists(n - 1)
         IN  shorter \cup
             {Append(q, [address |-> a, protocol |-> p, use_sample |-> FALSE]) :
                 q \in {r \in shorter : Len(r) = n - 1}, a \in {1, n}, p \in Protocols}

notApi == <<runnerVars, spamVars, fetchVars, folderVars, cacheVars>>

\* a call of the API as the log keeps it: the operation, the message, and
\* what each client that acted did
Logged(op, ref, acts) == [op |-> op, ref |-> ref, acts |-> acts]

\* MailController.ensure_sample_client(), in any configuration
ApiEnsure ==
    /\ api_pc = "setup"
    /\ Len(api_log) < MaxCalls
    /\ clients' = ensure_sample_client(clients)
    /\ sample_messages' = Grown(sample_messages, Len(clients'), NoCache)
    /\ server' = Grown(server, Len(clients'), <<>>)
    /\ net' = Grown(net, Len(clients'), Reachable)
    /\ service' = Grown(service, Len(clients'), "none")
    /\ api_log' = Append(api_log, Logged("ensure", 0, <<>>))
    /\ UNCHANGED <<heap, views, api_pc, target>>
    /\ UNCHANGED notApi

\* the caller obtains its message: one of a view load_initial_inbox returns,
\* or one it built itself
ApiLoad ==
    /\ api_pc = "setup"
    /\ LET r == Collect(1, heap, sample_messages, <<>>)
       IN  /\ heap' = r.heap
           /\ sample_messages' = r.sample
           /\ views' = [views EXCEPT ![1] = InboxData(r.heap, r.messages, "handed")]
           /\ target' \in 1..Len(r.heap)
    /\ api_pc' = "ready"
    /\ UNCHANGED <<clients, server, net, service, api_log>>
    /\ UNCHANGED notApi

\* MailController.mark_as_read(message) / toggle_flag(message)
ApiCall(op, pushed) ==
    /\ api_pc = "ready"
    /\ Len(api_log) < MaxCalls
    /\ pushed => (Owner(heap[target]) # 0 /\ AttemptsPush(clients[Owner(heap[target])]))
    /\ LET r == Route(op, 1, heap, server, target, pushed, <<>>)
       IN  /\ heap' = r.heap
           /\ server' = r.server
           /\ api_log' = Append(api_log, Logged(op, target, r.acts))
    /\ UNCHANGED <<clients, sample_messages, views, net, service, api_pc, target>>
    /\ UNCHANGED notApi

ApiMarkAsRead == \E pushed \in BOOLEAN : ApiCall("read", pushed)

ApiToggleFlag == \E pushed \in BOOLEAN : ApiCall("flag", pushed)

ApiInit ==
    /\ clients \in ApiClientLists(MaxClients)
    /\ heap = <<ForeignMessage>>
    /\ sample_messages = [i \in 1..Len(clients) |-> NoCache]
    /\ server = [i \in 1..Len(clients) |->
                    IF clients[i].protocol = "imap" THEN Mailbox ELSE <<>>]
    /\ net = [i \in 1..Len(clients) |-> Reachable]
    /\ service = [i \in 1..Len(clients) |-> "none"]
    /\ views = [l \in Loads |-> NoView]
    /\ api_pc = "setup"
    /\ target = 0
    /\ api_log = <<>>

ApiIdle ==
    /\ api_pc = "idle"
    /\ target = 0
    /\ api_log = <<>>

ApiNext ==
    \/ ApiEnsure
    \/ ApiLoad
    \/ ApiMarkAsRead
    \/ ApiToggleFlag

-----------------------------------------------------------------------------
(* The folder merge of load_initial_inbox on drawn folder lists *)

\* folders collected from the clients
MaxFolders == 3
\* largest sort_index
MaxIndex == 1

FolderNames == {"INBOX", "SENT"}
DisplayNames == {"Inbox", "Sent"}

Folders ==
    [name : FolderNames, display_name : DisplayNames,
     is_primary : BOOLEAN, sort_index : 0..MaxIndex]

NotMerged == [done |-> FALSE, folders |-> <<>>]

\* load_initial_inbox from `unique = {}` to `ordered_folders`
Merge ==
    /\ ~fd_result.done
    /\ fd_result' = [done |-> TRUE,
                     folders |-> SortFolders(UniqueFolders(fd_folders, <<>>))]
    /\ UNCHANGED <<fd_folders, runnerVars, spamVars, inboxVars, apiVars, fetchVars, cacheVars>>

FolderInit ==
    /\ fd_folders \in SeqsUpTo(Folders, MaxFolders)
    /\ fd_result = NotMerged

FolderNext == Merge

-----------------------------------------------------------------------------
(* MailClient.fetch_inbox on drawn accounts, mailboxes and session outcomes *)

\* the protocol kinds drawn, upper case included
Kinds == Protocols \cup {"IMAP", "DEMO"}

\* largest limit drawn below the one load_initial_inbox passes
MaxLimit == 2

\* fetch_inbox(limit), limit >= 0; load_initial_inbox passes 50
Limits == (0..MaxLimit) \cup {InboxLimit}

NotFetched == [done |-> FALSE, raised |-> FALSE, messages |-> <<>>]

\* client.fetch_inbox(limit)
Fetch ==
    /\ ~ft_result.done
    /\ LET r == fetch_inbox(ft_client, ft_mailbox, ft_limit, ft_outcome)
       IN  ft_result' = [done |-> TRUE, raised |-> r.raised, messages |-> r.messages]
    /\ UNCHANGED <<ft_client, ft_mailbox, ft_limit, ft_outcome>>
    /\ UNCHANGED <<runnerVars, spamVars, inboxVars, apiVars, folderVars, cacheVars>>

FetchInit ==
    /\ ft_client \in [address : {1}, protocol : Kinds, use_sample : BOOLEAN]
    /\ ft_mailbox \in {SubSeq(Mailbox, 1, n) : n \in 0..MaxMail}
    /\ ft_limit \in Limits
    /\ ft_outcome \in ImapOutcomes
    /\ ft_result = NotFetched

FetchNext == Fetch

\* the harnesses of fetch_inbox and of the folder merge, not in use
FetchIdle ==
    /\ ft_client = SampleClient
    /\ ft_mailbox = <<>>
    /\ ft_limit = InboxLimit
    /\ ft_outcome = [fails |-> "none", refused |-> {}, broken |-> 0, undated |-> 0]
    /\ ft_result = NotFetched

FolderIdle ==
    /\ fd_folders = <<>>
    /\ fd_result = NotMerged

-----------------------------------------------------------------------------
(* MailController.load_initial_inbox called once, on drawn accounts, mailboxes,
   fetch outcomes and classification outcomes per account *)

\* a mailbox that holds one message more than load_initial_inbox asks for,
\* drawn for the configurations with a single account
LongMailbox ==
    [u \in 1..(InboxLimit + 1) |->
        [uid |-> u, date |-> u, seen |-> FALSE, flagged |-> FALSE]]

\* inbox = self._controller.load_initial_inbox()
LoadOnce == LoadSync(1)

LoadInit ==
    /\ clients \in ClientLists(MaxClients)
    /\ heap = <<>>
    /\ sample_messages = [i \in 1..Len(clients) |-> NoCache]
    /\ server \in [1..Len(clients) -> {<<>>, Mailbox, LongMailbox}]
    /\ net \in [1..Len(clients) -> FetchOutcomes]
    /\ service \in [1..Len(clients) -> SpamOutcomes]
    /\ \A i \in 1..Len(clients) :
          /\ clients[i].protocol # "imap" => (server[i] = <<>> /\ net[i] = Reachable)
          /\ clients[i].protocol = "imap" => server[i] # <<>>
          /\ server[i] = LongMailbox => Len(clients) = 1
          /\ ~net[i].ok => net[i].got = 1..MaxMail
          /\ sp_enabled \/ service[i] = "none"
    /\ views = [l \in Loads |-> NoView]

LoadNext == LoadOnce

-----------------------------------------------------------------------------
(* MailClient._load_sample_messages of one sample-backed client, entered by
   the threads that run load_initial_inbox: the UI thread (the synchronous
   load) and the workers of the pool (refresh_inbox_async) *)

\* threads that can be inside fetch_inbox of the client at once
MaxThreads == 2
\* calls of fetch_inbox on the client in one behaviour
MaxFetches == 3

Threads == 1..MaxThreads

notCache == <<runnerVars, spamVars, inboxVars, apiVars, fetchVars, folderVars>>

\* calls of fetch_inbox begun so far
Begun == Len(ls_returned) + Cardinality({t \in Threads : ls_pc[t] # "out"})

\* `if self._sample_messages is None:` the thread reads the attribute
TestCache(t) ==
    /\ ls_pc[t] = "out"
    /\ Begun < MaxFetches
    /\ ls_pc' = [ls_pc EXCEPT ![t] = IF ls_cache = 0 THEN "load" ELSE "return"]
    /\ UNCHANGED <<ls_cache, ls_messages, ls_decodes, ls_returned>>
    /\ UNCHANGED notCache

\* json.load(handle) and the loop that builds `messages`: new MailMessage objects
Decode(t) ==
    /\ ls_pc[t] = "load"
    /\ ls_decodes' = ls_decodes + 1
    /\ ls_messages' = [ls_messages EXCEPT ![t] = ls_decodes + 1]
    /\ ls_pc' = [ls_pc EXCEPT ![t] = "assign"]
    /\ UNCHANGED <<ls_cache, ls_returned>>
    /\ UNCHANGED notCache

\* self._sample_messages = messages
AssignCache(t) ==
    /\ ls_pc[t] = "assign"
    /\ ls_cache' = ls_messages[t]
    /\ ls_pc' = [ls_pc EXCEPT ![t] = "return"]
    /\ UNCHANGED <<ls_messages, ls_decodes, ls_returned>>
    /\ UNCHANGED notCache

\* return list(self._sample_messages): the objects of the list cached now
ReturnCached(t) ==
    /\ ls_pc[t] = "return"
    /\ ls_returned' = Append(ls_returned, [thread |-> t, list |-> ls_cache])
    /\ ls_pc' = [ls_pc EXCEPT ![t] = "out"]
    /\ ls_messages' = [ls_messages EXCEPT ![t] = 0]
    /\ UNCHANGED <<ls_cache, ls_decodes>>
    /\ UNCHANGED notCache

\* MailClient.__init__: self._sample_messages = None
CacheInit ==
    /\ ls_cache = 0
    /\ ls_pc = [t \in Threads |-> "out"]
    /\ ls_messages = [t \in Threads |-> 0]
    /\ ls_decodes = 0
    /\ ls_returned = <<>>

CacheIdle == CacheInit

CacheNext ==
    \/ \E t \in Threads : TestCache(t)
    \/ \E t \in Threads : Decode(t)
    \/ \E t \in Threads : AssignCache(t)
    \/ \E t \in Threads : ReturnCached(t)

-----------------------------------------------------------------------------
(* Specifications *)

Idle == ApiIdle /\ FetchIdle /\ FolderIdle /\ CacheIdle

Init == RunnerInit /\ SpamIdle /\ InboxIdle /\ Idle

Next == RunnerNext

\* the task runner under refresh_inbox_async, shutdown and the event loop
Spec == Init /\ [][Next]_vars

SpamSpecInit == SpamInit /\ RunnerIdle /\ InboxIdle /\ Idle

SpamSpecNext == SpamNext

\* filter_messages on every drawn configuration, batch and service behaviour
SpamSpec == SpamSpecInit /\ [][SpamSpecNext]_vars

InboxSpecInit ==
    /\ InboxInit
    /\ RunnerIdle
    /\ sp_enabled \in BOOLEAN
    /\ sp_enabled \/ \A i \in 1..Len(service) : service[i] = "none"
    /\ sp_api_key = "key"
    /\ sp_messages = <<>>
    /\ sp_response = NoResponse
    /\ sp_posts = 0
    /\ sp_result = <<>>
    /\ sp_pc = "idle"
    /\ Idle

InboxSpecNext == InboxNext

\* the controller: loads, refreshes and mark_as_read over shared messages
InboxSpec == InboxSpecInit /\ [][InboxSpecNext]_vars

ApiSpecInit ==
    /\ ApiInit
    /\ RunnerIdle
    /\ SpamIdle
    /\ FetchIdle
    /\ FolderIdle
    /\ CacheIdle

ApiSpecNext == ApiNext

\* ensure_sample_client, mark_as_read and toggle_flag called on the controller
ApiSpec == ApiSpecInit /\ [][ApiSpecNext]_vars

FolderSpecInit ==
    /\ FolderInit
    /\ RunnerIdle
    /\ SpamIdle
    /\ InboxIdle
    /\ ApiIdle
    /\ FetchIdle
    /\ CacheIdle

FolderSpecNext == FolderNext

\* the folder merge applied to every drawn list of collected folders
FolderSpec == FolderSpecInit /\ [][FolderSpecNext]_vars

FetchSpecInit ==
    /\ FetchInit
    /\ RunnerIdle
    /\ SpamIdle
    /\ InboxIdle
    /\ ApiIdle
    /\ FolderIdle
    /\ CacheIdle

FetchSpecNext == FetchNext

\* fetch_inbox applied to every drawn account, mailbox and session outcome
FetchSpec == FetchSpecInit /\ [][FetchSpecNext]_vars

LoadSpecInit ==
    /\ sp_enabled \in BOOLEAN
    /\ sp_api_key = "key"
    /\ sp_messages = <<>>
    /\ sp_response = NoResponse
    /\ sp_posts = 0
    /\ sp_result = <<>>
    /\ sp_pc = "idle"
    /\ LoadInit
    /\ RunnerIdle
    /\ Idle

LoadSpecNext == LoadNext

\* one load_initial_inbox over every drawn configuration and environment
LoadSpec == LoadSpecInit /\ [][LoadSpecNext]_vars

CacheSpecInit ==
    /\ CacheInit
    /\ RunnerIdle
    /\ SpamIdle
    /\ InboxIdle
    /\ ApiIdle
    /\ FetchIdle
    /\ FolderIdle

CacheSpecNext == CacheNext

\* fetch_inbox of one sample-backed client called from several threads
CacheSpec == CacheSpecInit /\ [][CacheSpecNext]_vars

-----------------------------------------------------------------------------
(* Properties of the runner *)

Done(t) == fstate[t] \in {"finished", "cancelled"}

\* what the future of call t holds once it is done
Outcome(t) == IF fstate[t] = "cancelled" THEN Cancelled ELSE fresult[t]

\* number of closures for call t waiting in the event queue
Posts(t) == Cardinality({i \in 1..Len(uiq) : uiq[i].task = t})

\* _done has run for call t
HandlerRan(t) == Done(t) /\ mainpc # t

\* nothing can invoke on_done of call t any more
Settled(t) ==
    \/ fstate[t] = "rejected"
    \/ HandlerRan(t) /\ (Posts(t) = 0 \/ loop = "stopped")

\* C1 as stated: once a refresh_inbox_async call is settled, whatever the
\* interleaving with other refreshes and shutdown, on_done has been invoked
\* exactly once, with the value load_initial_inbox returned or the failure it
\* raised.
C1_ExactlyOnceAlways ==
    \A t \in Tasks :
        Settled(t) => /\ Len(calls[t]) = 1
                      /\ fstate[t] = "finished"
                      /\ calls[t][1].arg = fresult[t]

\* C1 amended: a call the runner accepts (made before shutdown) has its
\* completion dispatched exactly once by _done: the InboxData when
\* load_initial_inbox returned, the failure when it raised, a cancellation
\* error when shutdown cancelled it before it started. on_done is invoked at
\* most once, with that value: directly when there is no UI context (so
\* exactly once), through the event queue otherwise. A call made after
\* shutdown is rejected and on_done is never invoked for it.
C1_DispatchedOnce ==
    \A t \in Tasks :
        /\ Len(calls[t]) <= 1
        /\ \A i \in 1..Len(calls[t]) : Done(t) /\ calls[t][i].arg = Outcome(t)
        /\ \A i \in 1..Len(uiq) : uiq[i].task = t => Done(t) /\ uiq[i].arg = Outcome(t)
        /\ Len(calls[t]) + Posts(t) = (IF HandlerRan(t) THEN 1 ELSE 0)
        /\ ~app => Posts(t) = 0
        /\ fstate[t] = "rejected" => calls[t] = <<>>

\* C1 witness: after shutdown, one accepted call has delivered the InboxData
\* once, another was cancelled and got the cancellation error, a third was rejected
C1_Witness ==
    /\ shut
    /\ \E t \in Tasks : fstate[t] = "finished" /\ Len(calls[t]) = 1
                        /\ calls[t][1].arg.kind = "ok"
    /\ \E t \in Tasks : fstate[t] = "cancelled" /\ Len(calls[t]) = 1
    /\ \E t \in Tasks : fstate[t] = "rejected"

\* C2 as stated: with a UI context on_done runs only on the UI thread, through
\* the event queue; without one it is invoked directly by the thread that
\* completed the future.
C2_CompleterInvokes ==
    \A t \in Tasks : \A i \in 1..Len(calls[t]) :
        LET c == calls[t][i]
        IN  /\ app => c.thread = "main" /\ c.how = "posted"
            /\ ~app => c.how = "direct" /\ c.thread = completedBy[t]

\* C2 amended: with a UI context on_done runs only on the UI thread, through
\* the event queue, never on a worker; without one it is invoked directly by
\* the thread that runs the future's done callbacks: the thread that completed
\* or cancelled the future when _done was registered in time, the thread that
\* called run() when the future was already done at add_done_callback.
C2_UiContextOnly ==
    \A t \in Tasks : \A i \in 1..Len(calls[t]) :
        LET c == calls[t][i]
        IN  /\ app => c.thread = "main" /\ c.how = "posted"
            /\ ~app => /\ c.how = "direct"
                       /\ c.thread = IF hasCb[t] THEN completedBy[t] ELSE "main"

\* C2 witness: a future completed by a worker while a UI context exists, and
\* its on_done has run
C2_Witness ==
    \E t \in Tasks : app /\ completedBy[t] = "worker" /\ hasCb[t] /\ Len(calls[t]) = 1

\* C3 as stated: on_done fires only after the work has returned or raised, at
\* most once, with that task's own return value or exception.
C3_AfterWorkOwnResult ==
    \A t \in Tasks :
        /\ Len(calls[t]) <= 1
        /\ \A i \in 1..Len(calls[t]) :
               /\ fstate[t] = "finished"
               /\ calls[t][i].arg = fresult[t]

\* C3 amended: on_done fires at most once, and only after the work has
\* returned or raised, or after shutdown cancelled the future before the work
\* started; it receives that task's own return value or exception, or the
\* cancellation error of that task's future.
C3_AfterDoneOwnResult ==
    \A t \in Tasks :
        /\ Len(calls[t]) <= 1
        /\ \A i \in 1..Len(calls[t]) :
               \/ /\ fstate[t] = "finished"
                  /\ calls[t][i].arg = fresult[t]
                  /\ fresult[t].kind \in {"ok", "exc"}
               \/ /\ fstate[t] = "cancelled"
                  /\ calls[t][i].arg = Cancelled
                  /\ fresult[t] = NoResult

\* C3 witness: two calls have both delivered, with different results
C3_Witness ==
    \E t, u \in Tasks :
        /\ t # u
        /\ Len(calls[t]) = 1 /\ Len(calls[u]) = 1
        /\ calls[t][1].arg.kind = "ok" /\ calls[u][1].arg.kind = "ok"
        /\ calls[t][1].arg # calls[u][1].arg

\* C4: after shutdown, a later submission is rejected and never starts; work
\* queued at shutdown is cancelled and never starts; work running at shutdown
\* is not interrupted: it stays running until it finishes, and it can finish.
C4_Shutdown ==
    /\ [][\A t \in Tasks :
            /\ shut => shut'
            /\ (shut /\ fstate[t] = "none") => fstate'[t] \in {"none", "rejected"}
            /\ fstate[t] = "rejected" => fstate'[t] = "rejected"
            /\ (~shut /\ shut' /\ fstate[t] = "pending") => fstate'[t] = "cancelled"
            /\ fstate[t] = "cancelled" => fstate'[t] = "cancelled"
            /\ (shut' /\ fstate[t] = "running") => fstate'[t] \in {"running", "finished"}
         ]_vars
    /\ [](\A t \in Tasks :
            /\ shut => fstate[t] # "pending"
            /\ fstate[t] = "running" => ENABLED FinishReturn(t))

\* C4 witness: after shutdown one call is still running, one was cancelled in
\* the queue and one was rejected
C4_Witness ==
    /\ shut
    /\ \E t \in Tasks : fstate[t] = "running"
    /\ \E t \in Tasks : fstate[t] = "cancelled"
    /\ \E t \in Tasks : fstate[t] = "rejected"

-----------------------------------------------------------------------------
(* Properties of the spam pipeline *)

Configured == sp_enabled /\ sp_api_key = "key"

\* message ids with a well-formed is_spam=true verdict in the response
SpamIds ==
    {sp_response.choices[i].message_id :
        i \in {j \in 1..Len(sp_response.choices) :
                 /\ sp_response.choices[j].message_id # 0
                 /\ sp_response.choices[j].text = "spam"}}

\* an entry off the expected shape: no metadata.message_id, or text not JSON
Deviates(e) == e.message_id = 0 \/ e.text = "notjson"

\* an entry whose text is JSON but no object: reading is_spam from it raises
Unreadable(e) == e.message_id # 0 /\ e.text = "scalar"

SomeEntry(P(_)) == \E i \in 1..Len(sp_response.choices) : P(sp_response.choices[i])

\* C5: filtering enabled and a credential set: when the classification call
\* fails (transport error, timeout, bad status, body not JSON, body no JSON
\* object), filter_messages returns exactly the batch it was given.
C5_FailOpen ==
    (sp_pc = "returned" /\ Configured /\ sp_response.kind \in FailureKinds)
        => sp_result = sp_messages

\* C5 witness: a failed call on a non-empty batch
C5_Witness ==
    /\ sp_pc = "returned" /\ Configured
    /\ sp_posts = 1
    /\ sp_response.kind = "status"
    /\ Len(sp_messages) = MaxBatch

C8_PassThrough ==
    (sp_pc = "returned" /\ (~sp_enabled \/ sp_api_key \in {"none", "empty"}))
        => /\ sp_result = sp_messages
           /\ sp_posts = 0
           /\ sp_response = NoResponse

\* C8 witness: filtering enabled without a credential, on a full batch
C8_Witness ==
    /\ sp_pc = "returned"
    /\ sp_enabled /\ sp_api_key = "none"
    /\ Len(sp_messages) = MaxBatch
    /\ sp_result = sp_messages

-----------------------------------------------------------------------------
(* Properties of the aggregated view *)

\* the views load_initial_inbox has returned, to the UI thread or to a task
Returned_views == {l \in Loads : views[l].state # "none"}

\* the views a caller holds
Handed == {l \in Loads : views[l].state = "handed"}

Message(l, i) == heap[views[l].messages[i]]

\* the messages of view l that are unread now
Unread(l) == {i \in 1..Len(views[l].messages) : Message(l, i).is_unread}

\* C9: whatever the accounts, the fetch outcomes and the classification
\* outcomes, the messages of a view returned by load_initial_inbox are in
\* non-increasing order of date_received (newest first).
C9_NewestFirst ==
    \A l \in Returned_views :
        \A i, j \in 1..Len(views[l].messages) :
            i < j => Message(l, i).date_received >= Message(l, j).date_received

\* C9 witness: a view merged from two accounts in which a message of the
\* later account stands before an older message of the earlier account
C9_Witness ==
    \E l \in Returned_views :
        \E i, j \in 1..Len(views[l].messages) :
            /\ i < j
            /\ Message(l, i).account_id > Message(l, j).account_id
            /\ Message(l, i).date_received > Message(l, j).date_received

\* C10 as stated: in every reachable state the unread_count of a view a
\* caller holds is the number of its messages that are unread now.
C10_CountNeverStale ==
    \A l \in Handed : views[l].unread_count = Cardinality(Unread(l))

\* C10 amended: unread_count is the number of unread messages of the view at
\* the moment load_initial_inbox returns it; it is a stored number that no
\* operation updates afterwards, so after mark_as_read on a message of the
\* view it stays at its old value, never below the current number.
C10_CountAtLoad ==
    /\ [][\A l \in Loads :
            /\ (views[l].state = "none" /\ views'[l].state # "none")
                  => views'[l].unread_count =
                        Cardinality({i \in 1..Len(views'[l].messages) :
                                        heap'[views'[l].messages[i]].is_unread})
            /\ views[l].state # "none"
                  => /\ views'[l].unread_count = views[l].unread_count
                     /\ views'[l].messages = views[l].messages]_vars
    /\ [](\A l \in Returned_views : views[l].unread_count >= Cardinality(Unread(l)))

\* C10 witness: a view a caller holds whose unread_count exceeds the number
\* of its unread messages, after mark_as_read on a message of an IMAP account
C10_Witness ==
    \E l \in Handed :
        /\ views[l].unread_count > Cardinality(Unread(l))
        /\ \E i \in 1..Len(views[l].messages) :
              /\ ~Message(l, i).is_unread
              /\ clients[Owner(Message(l, i))].protocol = "imap"

-----------------------------------------------------------------------------
(* Properties of the controller's API *)

\* the last call logged
LastCall == api_log[Len(api_log)]

\* the step is a call of op
CallStep(op) == Len(api_log') = Len(api_log) + 1 /\ api_log'[Len(api_log')].op = op

\* what load_initial_inbox reads: the clients, their caches and mailboxes,
\* the network and the spam service
LoadInputs == <<clients, sample_messages, heap, server, net, service>>

\* C11: ensure_sample_client installs the one synthetic demo client when no
\* client exists and changes nothing when a client exists, so further calls
\* leave the client list, and the message count of load_initial_inbox, as the
\* first call left them: everything a load reads is unchanged by a further
\* call, and a load after any number of calls on an empty configuration
\* returns the sample messages once.
C11_EnsureIdempotent ==
    /\ [][CallStep("ensure") =>
            IF clients = <<>>
            THEN clients' = <<SampleClient>>
            ELSE LoadInputs' = LoadInputs]_vars
    /\ [](api_log # <<>> /\ api_log[1].op = "ensure" => clients # <<>>)
    /\ [](clients = <<SampleClient>> /\ views[1].state = "handed"
            => Len(views[1].messages) = Len(SampleEntries))

\* C11 witness: two calls with no account configured, then a load that
\* returns the sample messages of the one synthetic client
C11_Witness ==
    /\ Len(api_log) >= 2
    /\ \A k \in 1..Len(api_log) : api_log[k].op = "ensure"
    /\ clients = <<SampleClient>>
    /\ views[1].state = "handed"
    /\ Len(views[1].messages) = Len(SampleEntries)

\* the message of the call was served by a client on its sample branch, and
\* that client is the one the controller routes to
SampleServed(ref) ==
    /\ Owner(heap[ref]) # 0
    /\ ServesSample(clients[Owner(heap[ref])])
    /\ \E e \in 1..Len(SampleEntries) : heap[ref].id = SampleId(SampleEntries[e].id)

\* C12 as stated: mark_as_read on a message served from the sample dataset
\* sets is_unread to false and attempts no network connection, for the
\* synthetic client and for a configured account of the demo kind alike.
C12_SampleNeverConnects ==
    (api_log # <<>> /\ LastCall.op = "read" /\ SampleServed(LastCall.ref))
        => /\ ~heap[LastCall.ref].is_unread
           /\ \A k \in 1..Len(LastCall.acts) : ~LastCall.acts[k].attempted

-----------------------------------------------------------------------------
(* Properties of the folders of a view *)

\* the key of the folder merge
Key(f) == <<f.name, f.display_name>>

\* C13: the folders of every view load_initial_inbox returned hold at most one
\* entry per (name, display_name) pair, whatever the number of accounts.
C13_FoldersUnique ==
    \A l \in Returned_views :
        \A i, j \in 1..Len(views[l].folders) :
            Key(views[l].folders[i]) = Key(views[l].folders[j]) => i = j

\* C13 witness: a view built from the folder catalogs of several accounts
C13_Witness ==
    \E l \in Returned_views :
        /\ Len(clients) >= 2
        /\ Len(views[l].folders) = Len(list_primary_folders)

\* the copies of key k among the collected folders
Copies(k) == {i \in 1..Len(fd_folders) : Key(fd_folders[i]) = k}

\* key k has several copies, exactly one of them primary
OnePrimary(k) ==
    /\ Cardinality(Copies(k)) >= 2
    /\ Cardinality({i \in Copies(k) : fd_folders[i].is_primary}) = 1

\* C14: when the collected folders hold several copies of one (name,
\* display_name) pair and exactly one copy is primary, the merged list holds
\* that pair once, and the entry is the primary copy, wherever it stood.
C14_PrimaryKept ==
    fd_result.done =>
        \A i \in 1..Len(fd_folders) :
            (OnePrimary(Key(fd_folders[i])) /\ fd_folders[i].is_primary)
                => /\ \E j \in 1..Len(fd_result.folders) : fd_result.folders[j] = fd_folders[i]
                   /\ \A j \in 1..Len(fd_result.folders) :
                         Key(fd_result.folders[j]) = Key(fd_folders[i])
                             => fd_result.folders[j] = fd_folders[i]

\* C14 witness: the primary copy came after a copy that is not primary and
\* has another sort_index, and the merge was done
C14_Witness ==
    /\ fd_result.done
    /\ \E i, j \in 1..Len(fd_folders) :
          /\ i < j
          /\ Key(fd_folders[i]) = Key(fd_folders[j])
          /\ OnePrimary(Key(fd_folders[j]))
          /\ fd_folders[j].is_primary
          /\ fd_folders[i].sort_index # fd_folders[j].sort_index

-----------------------------------------------------------------------------
(* Properties of fetch_inbox *)

\* the client takes the remote branch / the branch of the other kinds
Remote == ~ServesSample(ft_client) /\ IsImap(ft_client)
OtherKind == ~ServesSample(ft_client) /\ ~IsImap(ft_client)

\* the uids the session fetches, and those among them it could not get
Wanted == {LastN(ft_mailbox, ft_limit)[k].uid : k \in 1..Len(LastN(ft_mailbox, ft_limit))}
RefusedFetch == Wanted \cap ft_outcome.refused

\* the session raises somewhere, or the search is answered with another
\* status than OK
SessionFails ==
    \/ ft_outcome.fails # "none"
    \/ ft_outcome.broken \in Wanted
    \/ ft_outcome.undated \in Wanted \ ft_outcome.refused

\* some step of the session failed
AnyFailure == SessionFails \/ RefusedFetch # {}

\* C15 as stated: fetch_inbox never raises; any failure at any step of a
\* remote fetch gives the empty sequence, and so does any other kind.
C15_AnyFailureEmpty ==
    (ft_result.done /\ (Remote \/ OtherKind))
        => /\ ~ft_result.raised
           /\ (OtherKind \/ AnyFailure) => ft_result.messages = <<>>

\* C15 amended: fetch_inbox never raises for a remote account or another
\* kind. An exception at any step (connect, login, select, search, a
\* message's fetch or decoding, logout) or a search answered with a status
\* other than OK gives the empty sequence. A message whose fetch is answered
\* with a status other than OK is skipped alone: the other messages are
\* returned, newest first. Any kind that is neither remote nor sample gives
\* the empty sequence.
C15_NeverRaises ==
    (ft_result.done /\ (Remote \/ OtherKind))
        => /\ ~ft_result.raised
           /\ (OtherKind \/ SessionFails) => ft_result.messages = <<>>
           /\ (Remote /\ ~SessionFails)
                => /\ {ft_result.messages[k].id : k \in 1..Len(ft_result.messages)}
                        = {ImapId(ft_client.address, u) : u \in Wanted \ RefusedFetch}
                   /\ Len(ft_result.messages) = Cardinality(Wanted \ RefusedFetch)
                   /\ \A j, k \in 1..Len(ft_result.messages) :
                         j < k => ft_result.messages[j].id > ft_result.messages[k].id

\* C15 witness: one message's fetch was refused and the session went on to
\* return the others
C15_Witness ==
    /\ ft_result.done /\ Remote
    /\ RefusedFetch # {}
    /\ ft_result.messages # <<>>

-----------------------------------------------------------------------------
(* Properties of the views as snapshots *)

\* the object is in the sample cache of some client
Cached(ref) ==
    \E c \in 1..Len(sample_messages) :
        \E k \in 1..Len(sample_messages[c].list) : sample_messages[c].list[k] = ref

\* C16 as stated: once a view has been returned, another load or refresh, or
\* mark_as_read on a message obtained from another view, changes nothing that
\* can be observed through it: its folders, its count, its messages and their
\* fields.
C16_ViewsShareNothing ==
    [][\A l \in Loads :
          (/\ views[l].state # "none"
           /\ \/ \E k \in Loads : LoadSync(k) \/ RefreshRun(k) \/ RefreshDeliver(k)
              \/ \E k \in Loads \ {l}, i \in 1..MaxRow, pushed \in BOOLEAN :
                    MarkAsRead(k, i, pushed))
            => /\ views'[l].folders = views[l].folders
               /\ views'[l].unread_count = views[l].unread_count
               /\ views'[l].messages = views[l].messages
               /\ \A i \in 1..Len(views[l].messages) :
                     heap'[views[l].messages[i]] = heap[views[l].messages[i]]]_vars

\* C16 amended: a returned view keeps its folders, its count and its sequence
\* of messages for good. A message fetched from a remote account belongs to
\* one view only and changes only by a mutation made through that view. The
\* messages served from the sample dataset are the cached objects of the
\* client, the same in every view, so a mutation made through one view shows
\* through every view that holds the message.
C16_OnlyCachedShared ==
    /\ [][\A l \in Loads :
            views[l].state # "none"
              => /\ views'[l].folders = views[l].folders
                 /\ views'[l].unread_count = views[l].unread_count
                 /\ views'[l].messages = views[l].messages
                 /\ \A i \in 1..Len(views[l].messages) :
                       (/\ ~Cached(views[l].messages[i])
                        /\ heap'[views[l].messages[i]] # heap[views[l].messages[i]])
                         => \E pushed \in BOOLEAN : MarkAsRead(l, i, pushed)]_vars
    /\ [](\A l, k \in Returned_views :
            \A i \in 1..Len(views[l].messages), j \in 1..Len(views[k].messages) :
                (l # k /\ views[l].messages[i] = views[k].messages[j])
                    => Cached(views[l].messages[i]))

\* C16 witness: two views hold the same sample message, read through one of
\* them, next to a remote message held by one view alone
C16_Witness ==
    \E l, k \in Returned_views :
        /\ l # k
        /\ \E i \in 1..Len(views[l].messages), j \in 1..Len(views[k].messages) :
              /\ views[l].messages[i] = views[k].messages[j]
              /\ ~Message(l, i).is_unread
        /\ \E i \in 1..Len(views[l].messages) :
              /\ ~Cached(views[l].messages[i])
              /\ \A j \in 1..Len(views[k].messages) :
                    views[k].messages[j] # views[l].messages[i]

-----------------------------------------------------------------------------
(* Properties of mark_as_read and toggle_flag *)

\* the step is a call of mark_as_read or of toggle_flag
MutationStep == CallStep("read") \/ CallStep("flag")

\* the clients whose account address is the account identity of the message
Owning(m) == {i \in 1..Len(clients) : clients[i].address = m.account_id}

\* C17: mark_as_read and toggle_flag of the controller act through one client
\* at most, the first in configuration order whose account address equals the
\* account identity of the message; when no client owns the message, the
\* message and every client are left as they were.
C17_FirstOwnerOnly ==
    [][MutationStep =>
        LET owning == Owning(heap[target])
            acts == api_log'[Len(api_log')].acts
        IN  /\ Len(acts) <= 1
            /\ owning = {} => /\ acts = <<>>
                              /\ heap' = heap
                              /\ server' = server
                              /\ sample_messages' = sample_messages
            /\ owning # {} => /\ Len(acts) = 1
                              /\ acts[1].client \in owning
                              /\ \A j \in owning : acts[1].client <= j
                              /\ \A i \in 1..Len(server) :
                                    i # acts[1].client => server'[i] = server[i]
            /\ clients' = clients
            /\ \A ref \in 1..Len(heap) : ref # target => heap'[ref] = heap[ref]]_vars

\* C17 witness: two clients have the address of the message, and both calls
\* went through the first of them, which pushed the change to its server
C17_Witness ==
    /\ api_pc = "ready"
    /\ Len(api_log) >= 2
    /\ Cardinality(Owning(heap[target])) >= 2
    /\ api_log[1].op = "flag" /\ api_log[2].op = "read"
    /\ \A k \in 1..2 :
          /\ api_log[k].acts # <<>>
          /\ api_log[k].acts[1].client = 1
          /\ api_log[k].acts[1].stored

\* calls of toggle_flag so far that a client carried out
Toggles == Cardinality({k \in 1..Len(api_log) : api_log[k].op = "flag" /\ api_log[k].acts # <<>>})

\* C19: the client's mark_as_read leaves is_unread false and toggle_flag flips
\* is_flagged, whatever becomes of the push; the command pushed is the
\* add-flag command exactly when the new local value is flagged; a failed push
\* does not raise, leaves the server as it was and the local change in place;
\* two toggles bring is_flagged back.
C19_LocalChangeStands ==
    /\ [][(MutationStep /\ Owning(heap[target]) # {}) =>
            LET before == heap[target]
                after == heap'[target]
                call == api_log'[Len(api_log')]
                act == call.acts[1]
            IN  /\ call.op = "read" => after = [before EXCEPT !.is_unread = FALSE]
                /\ call.op = "flag" =>
                      after = [before EXCEPT !.is_flagged = ~before.is_flagged]
                /\ act.outcome # "raised"
                /\ act.attempted =>
                      act.command = IF call.op = "read" THEN "+Seen"
                                    ELSE IF after.is_flagged THEN "+Flagged"
                                    ELSE "-Flagged"
                /\ ~act.stored => server' = server
                /\ (act.stored /\ call.op = "flag") =>
                      \A k \in 1..Len(server[act.client]) :
                          server[act.client][k].uid = before.id % IdBase
                              => server'[act.client][k].flagged = after.is_flagged]_vars
    /\ [](api_pc = "ready" => heap[target].is_flagged = (Toggles % 2 = 1))

\* C19 witness: two toggles of a message of an IMAP account, the first
\* pushed, the second not: the message is as it was, the server is not
C19_Witness ==
    /\ api_pc = "ready"
    /\ Len(api_log) = 2
    /\ \A k \in 1..2 : api_log[k].op = "flag" /\ api_log[k].acts # <<>>
    /\ api_log[1].acts[1].stored /\ api_log[1].acts[1].command = "+Flagged"
    /\ api_log[2].acts[1].attempted /\ ~api_log[2].acts[1].stored
    /\ ~heap[target].is_flagged
    /\ \E k \in 1..Len(server[1]) : server[1][k].flagged

-----------------------------------------------------------------------------
(* Properties of message ids and of the writers of messages *)

\* C18 as stated: no two messages of a view returned by load_initial_inbox
\* have the same id, several accounts backed by the sample dataset included.
C18_IdsUnique ==
    \A l \in Returned_views :
        \A i, j \in 1..Len(views[l].messages) :
            Message(l, i).id = Message(l, j).id => i = j

\* the step is a load on a worker thread / a mutation on the interactive thread
WorkerStep == \E l \in Loads : RefreshRun(l)
UiMutation == \E l \in Loads, i \in 1..MaxRow, pushed \in BOOLEAN : MarkAsRead(l, i, pushed)

\* C20: a refresh running on a worker thread writes no field of a Message
\* that existed before it ran; the fields of an existing Message change only
\* in a mark_as_read step of the interactive thread.
C20_WorkerWritesNothing ==
    [][/\ WorkerStep => \A ref \in 1..Len(heap) : heap'[ref] = heap[ref]
       /\ (\E ref \in 1..Len(heap) : heap'[ref] # heap[ref]) => UiMutation]_vars

\* C20 witness: a refresh ran on a worker while the interactive thread held a
\* view with a message it had marked read, and the refresh returned that
\* same message
C20_Witness ==
    \E l \in Loads, k \in Handed :
        /\ views[l].state = "pending"
        /\ \E i \in 1..Len(views[l].messages), j \in 1..Len(views[k].messages) :
              /\ views[l].messages[i] = views[k].messages[j]
              /\ ~Message(l, i).is_unread

-----------------------------------------------------------------------------
(* Properties of the sample cache under threads *)

\* C21 as stated: over any calls of fetch_inbox on a client, concurrent ones
\* included, the fixture is decoded at most once and every fetch returns the
\* same message records as the first.
C21_DecodedOnce ==
    /\ ls_decodes <= 1
    /\ \A k \in 1..Len(ls_returned) : ls_returned[k].list = ls_returned[1].list

-----------------------------------------------------------------------------
(* Properties of refreshes that overlap *)

\* the view the window shows now
Shown == ShownAfter(Deliveries(calls), Invoked(calls, MaxTasks))

\* the place of the invocation that delivered an InboxData for refresh t in
\* the order of all invocations, 0 when there was none
DeliveredAt(t) ==
    IF \E i \in 1..Len(calls[t]) : calls[t][i].arg.kind = "ok"
    THEN calls[t][CHOOSE i \in 1..Len(calls[t]) : calls[t][i].arg.kind = "ok"].at
    ELSE 0

\* the view delivered last is the one of refresh t
DeliveredLast(t) ==
    /\ DeliveredAt(t) > 0
    /\ \A u \in Tasks : DeliveredAt(u) <= DeliveredAt(t)

\* C22: nothing orders the completions of two refreshes: the window shows the
\* view that was delivered last, whichever request it belongs to (no
\* generation check), and a refresh requested later is delivered before one
\* requested earlier only when the pool has two workers or more.
C22_NoOrderBetweenRefreshes ==
    /\ \A t \in Tasks : DeliveredLast(t) => Shown.task = t
    /\ \A t, u \in Tasks :
          (t < u /\ DeliveredAt(u) > 0 /\ DeliveredAt(u) < DeliveredAt(t))
              => max_workers >= 2

\* C22 witness: two workers, the second refresh delivered before the first,
\* both with a view, and the window left showing the view of the first
C22_Witness ==
    /\ max_workers >= 2
    /\ DeliveredAt(2) > 0
    /\ DeliveredAt(2) < DeliveredAt(1)
    /\ DeliveredLast(1)
    /\ Shown.task = 1
    /\ calls[1][1].arg # calls[2][1].arg

-----------------------------------------------------------------------------
(* Properties of one load over several accounts *)

\* what client i's own fetch gives, from its own mailbox and its own session
OwnBatch(i) == fetch_inbox(clients[i], server[i], InboxLimit, SessionOf(net[i])).messages

\* what its own classification call leaves of that
OwnKept(i) ==
    filter_messages(sp_enabled, sp_api_key, OwnBatch(i),
                    SpamResponse(OwnBatch(i), service[i]))

\* the messages of the returned view that belong to the account of client i
Portion(i) ==
    SelectSeq(views[1].messages, LAMBDA r : heap[r].account_id = clients[i].address)

IdsOf(q) == {q[k].id : k \in 1..Len(q)}
IdsIn(refs) == {heap[refs[k]].id : k \in 1..Len(refs)}

\* C23: accounts are isolated in load_initial_inbox. What the view holds for
\* an account is what that account's own fetch returned, filtered by the
\* answer to that account's own batch: a failed fetch leaves the account
\* with no message, a failed classification leaves its batch unfiltered,
\* and neither changes what the view holds for another account.
C23_AccountsIsolated ==
    views[1].state = "handed" =>
        \A i \in 1..Len(clients) :
            /\ IdsIn(Portion(i)) = IdsOf(OwnKept(i))
            /\ Len(Portion(i)) = Len(OwnKept(i))
            /\ (IsImap(clients[i]) /\ ~net[i].ok) => Portion(i) = <<>>
            /\ (sp_enabled /\ service[i] = "fail") => IdsIn(Portion(i)) = IdsOf(OwnBatch(i))
            /\ (sp_enabled /\ service[i] = "first" /\ OwnBatch(i) # <<>>)
                  => OwnBatch(i)[1].id \notin IdsIn(Portion(i))

\* C23 witness: the fetch of the first account fails, the classification of
\* the second account's batch fails, and the view holds every message the
\* second account's fetch returned
C23_Witness ==
    /\ views[1].state = "handed"
    /\ Len(clients) = 2
    /\ IsImap(clients[1]) /\ ~net[1].ok /\ Portion(1) = <<>>
    /\ sp_enabled /\ service[1] = "first" /\ service[2] = "fail"
    /\ OwnBatch(2) # <<>>
    /\ IdsIn(Portion(2)) = IdsOf(OwnBatch(2))

-----------------------------------------------------------------------------
(* Properties of the limit of fetch_inbox *)

\* the uids of the search result, oldest first, and the ft_limit newest of them
Found == [k \in 1..Len(ft_mailbox) |-> ft_mailbox[k].uid]
MostRecent ==
    {Found[k] : k \in {j \in 1..Len(Found) : j > Len(Found) - ft_limit}}

\* C24 as stated: for every limit >= 0, limit = 0 included, fetch_inbox
\* returns at most limit messages for the sample and the remote strategy, and
\* the remote messages are those of the limit most recent identifiers of the
\* search result.
C24_AtMostLimit ==
    (ft_result.done /\ (ServesSample(ft_client) \/ Remote))
        => /\ Len(ft_result.messages) <= ft_limit
           /\ Remote =>
                {ft_result.messages[k].id : k \in 1..Len(ft_result.messages)}
                    \subseteq {ImapId(ft_client.address, u) : u \in MostRecent}

-----------------------------------------------------------------------------
(* Properties of a message without a usable Date header *)

\* the session meets no other trouble than the message without a date, which
\* is among the messages it fetches
OnlyUndated ==
    /\ Remote
    /\ ft_outcome.fails = "none"
    /\ ft_outcome.broken \notin Wanted
    /\ ft_outcome.undated \in Wanted \ ft_outcome.refused

\* C25 as stated: a remote message with no Date header, or one that cannot
\* be parsed, is still returned by fetch_inbox, with the current time as its
\* receipt time, and the other messages of the fetch are returned as well.
C25_DateFallback ==
    (ft_result.done /\ OnlyUndated) =>
        /\ \E k \in 1..Len(ft_result.messages) :
              /\ ft_result.messages[k].id = ImapId(ft_client.address, ft_outcome.undated)
              /\ ft_result.messages[k].date_received = Now
        /\ {ft_result.messages[k].id : k \in 1..Len(ft_result.messages)}
              = {ImapId(ft_client.address, u) : u \in Wanted \ RefusedFetch}

-----------------------------------------------------------------------------
(* Properties of the merge of load_initial_inbox *)

\* a message as (id, account): what tells messages of one load apart by value
Stamp(m) == [id |-> m.id, account_id |-> m.account_id]

\* the survivors of clients 1..n, each client's after those of the clients
\* before it
RECURSIVE Survivors(_)
Survivors(n) ==
    IF n = 0 THEN <<>>
    ELSE Survivors(n - 1) \o [k \in 1..Len(OwnKept(n)) |-> Stamp(OwnKept(n)[k])]

\* how often x occurs in the sequence q
Times(q, x) == Cardinality({k \in 1..Len(q) : q[k] = x})

\* C26: merging conserves messages. The view of load_initial_inbox holds the
\* survivors of every client's filtering, each exactly once: no object occurs
\* twice, and as values the view and the concatenation of the survivors hold
\* the same messages the same number of times. With filtering off the view
\* holds, per client, at most 50 messages and exactly what the fetch returned.
C26_MergeConserves ==
    views[1].state = "handed" =>
        LET msgs == views[1].messages
            seen == [k \in 1..Len(msgs) |-> Stamp(heap[msgs[k]])]
            all == Survivors(Len(clients))
        IN  /\ \A j, k \in 1..Len(msgs) : j # k => msgs[j] # msgs[k]
            /\ Len(seen) = Len(all)
            /\ \A k \in 1..Len(all) : Times(seen, all[k]) = Times(all, all[k])
            /\ ~sp_enabled =>
                  \A i \in 1..Len(clients) :
                      /\ Len(Portion(i)) <= InboxLimit
                      /\ Len(Portion(i)) = Len(OwnBatch(i))
                      /\ IdsIn(Portion(i)) = IdsOf(OwnBatch(i))

\* C26 witness: two accounts, both with survivors, one message of the first
\* removed by its verdict, and the view holding the rest of both
C26_Witness ==
    /\ views[1].state = "handed"
    /\ Len(clients) = 2
    /\ sp_enabled /\ service[1] = "first" /\ service[2] = "none"
    /\ Len(OwnBatch(1)) = 2 /\ Len(Portion(1)) = 1
    /\ Len(OwnBatch(2)) = 2 /\ Len(Portion(2)) = 2
    /\ Len(views[1].messages) = 3

-----------------------------------------------------------------------------
(* Properties of the read state across loads *)

\* load l returns in this step
Produced(l) == views[l].state = "none" /\ views'[l].state # "none"

\* the object was marked read and the mark is kept where a later load reads
\* it: the object is served from a sample cache, or its account's server
\* holds \Seen for it (the flag push succeeded)
ReadKept(ref) ==
    /\ ~heap[ref].is_unread
    /\ \/ Cached(ref)
       \/ \E i \in 1..Len(clients) : \E k \in 1..Len(server[i]) :
             /\ owns_message(clients[i], heap[ref])
             /\ heap[ref].id = ImapId(clients[i].address, server[i][k].uid)
             /\ server[i][k].seen

\* C27 as stated: after mark_as_read(m) on a sample-backed message, or on a
\* remote message whose flag push succeeded, every view a later load or
\* refresh produces reports each message that has m's id as read.
C27_ReadStateKept ==
    [][\A l \in Loads : Produced(l) =>
          \A k \in 1..Len(views'[l].messages) :
              (\E ref \in 1..Len(heap) :
                    /\ heap[ref].id = heap'[views'[l].messages[k]].id
                    /\ ReadKept(ref))
                  => ~heap'[views'[l].messages[k]].is_unread]_vars

====
